---- MODULE Spec2Model ----
(***************************************************************************)
(* Metrics persistence and query subsystem of the monitoring CLI.         *)
(*                                                                         *)
(*   src/monitor_sqlite.py  the SQLite-backed store  (backend "sqlite")    *)
(*   src/monitor_cli.py     the CSV-backed store     (backend "csv")       *)
(*                                                                         *)
(* Modelling conventions                                                   *)
(*   - A Python str is a sequence of one-character strings; an ISO-8601   *)
(*     literal is carried as one element (TLC cannot index into a string) *)
(*     and datetime.fromisoformat is a table over those literals.          *)
(*   - A datetime is [sec, us]: seconds since the Unix epoch and the       *)
(*     microsecond field.                                                  *)
(*   - The text "YYYY-MM-DDTHH:MM:SSZ" is the tuple of its six zero-padded *)
(*     fields; byte-wise comparison of two such texts is the lexicographic *)
(*     comparison of the tuples.                                           *)
(*   - An optional command-line argument is <<>> when absent and <<v>>     *)
(*     when given (string arguments: the string itself, "" being <<>>).    *)
(*   - Metric readings are in tenths of a percent.                         *)
(***************************************************************************)
EXTENDS Integers, Sequences, FiniteSets, TLC

VARIABLES
    backend,    \* which program runs against the store: "sqlite" or "csv"
    now,        \* the wall clock, [sec, us]
    table,      \* sqlite: the rows of table sample
    seq,        \* sqlite: the AUTOINCREMENT high-water mark (sqlite_sequence)
    file,       \* csv: the store file, [exists, lines]
    pc,         \* csv: where each measure process stands
    job,        \* csv: the arguments and samples of each running measure
    orphan,     \* csv: the process holds a descriptor of an unlinked file
    last,       \* the last finished command: its arguments and its output
    expr,       \* resolver harness: the time expression under test
    resolved    \* resolver harness: what the resolver made of it

vars == <<backend, now, table, seq, file, pc, job, orphan, last, expr, resolved>>

(***************************************************************************)
(* Bounds                                                                  *)
(***************************************************************************)
\* rows ever inserted into the sqlite table
MaxInserts == 2
\* lines the csv file may hold
MaxLines == 4
\* half seconds the clock may run past Epoch0
MaxTicks == 2
\* length of the time expressions handed to the resolver harness
MaxExprLen == 4

(***************************************************************************)
(* Time                                                                    *)
(***************************************************************************)
SecPerDay == 24 * 3600
\* 2025-09-27T16:00:00Z, the instant the clock starts at
Epoch0 == 20358 * SecPerDay + 16 * 3600
HalfSecond == 500 * 1000

\* proleptic Gregorian date of a day number (days since 1970-01-01), as the
\* datetime module derives year, month and day from an ordinal
CivilFromDays(z0) ==
    LET z   == z0 + 719468
        era == z \div 146097
        doe == z - era * 146097
        yoe == (doe - doe \div 1460 + doe \div 36524 - doe \div 146096) \div 365
        doy == doe - (365 * yoe + yoe \div 4 - yoe \div 100)
        mp  == (5 * doy + 2) \div 153
        d   == doy - (153 * mp + 2) \div 5 + 1
        m   == IF mp < 10 THEN mp + 3 ELSE mp - 9
        y   == yoe + era * 400 + (IF m <= 2 THEN 1 ELSE 0)
    IN  <<y, m, d>>

utcnow == now

\* t - timedelta(seconds = s): the microsecond field is untouched
minus(t, s) == [sec |-> t.sec - s, us |-> t.us]

\* strftime(ISO_FMT) of a UTC datetime: the microseconds are dropped
isoformat_utc(t) ==
    LET c == CivilFromDays(t.sec \div SecPerDay)
        r == t.sec % SecPerDay
    IN  <<c[1], c[2], c[3], r \div 3600, (r % 3600) \div 60, r % 60>>

\* byte-wise a < b of two timestamp texts (SQLite TEXT, BINARY collation)
TextLess(a, b) ==
    \E i \in 1..6 : a[i] < b[i] /\ \A j \in 1..(i - 1) : a[j] = b[j]

TextLeq(a, b) == a = b \/ TextLess(a, b)

(***************************************************************************)
(* Python strings and int()                                                *)
(***************************************************************************)
DigitChars == <<"0", "1", "2", "3", "4", "5", "6", "7", "8", "9">>
IsDigit(c) == \E i \in 1..10 : DigitChars[i] = c
DigitVal(c) == (CHOOSE i \in 1..10 : DigitChars[i] = c) - 1

startswith(s, c) == Len(s) >= 1 /\ s[1] = c
endswith(s, c) == Len(s) >= 1 /\ s[Len(s)] = c

\* an optional str argument as an `if` condition: None and "" are false
Truthy(a) == a # <<>>

\* an optional int argument as an `if` condition: None and 0 are false
TruthyInt(a) == a # <<>> /\ a[1] # 0

RECURSIVE lstrip(_)
lstrip(s) == IF startswith(s, " ") THEN lstrip(Tail(s)) ELSE s

RECURSIVE rstrip(_)
rstrip(s) == IF endswith(s, " ") THEN rstrip(SubSeq(s, 1, Len(s) - 1)) ELSE s

strip(s) == rstrip(lstrip(s))

RECURSIVE DecimalValue(_)
DecimalValue(ds) ==
    IF ds = <<>> THEN 0
    ELSE 10 * DecimalValue(SubSeq(ds, 1, Len(ds) - 1)) + DigitVal(ds[Len(ds)])

\* int(s): surrounding whitespace, one optional sign, then digits that may be
\* grouped by single underscores; [ok |-> FALSE] stands for ValueError
py_int(s) ==
    LET t      == strip(s)
        signed == Len(t) >= 1 /\ t[1] \in {"+", "-"}
        body   == IF signed THEN Tail(t) ELSE t
        wellformed ==
            /\ body # <<>>
            /\ \A i \in 1..Len(body) : IsDigit(body[i]) \/ body[i] = "_"
            /\ IsDigit(body[1]) /\ IsDigit(body[Len(body)])
            /\ \A i \in 1..(Len(body) - 1) : ~(body[i] = "_" /\ body[i + 1] = "_")
        mag    == DecimalValue(SelectSeq(body, IsDigit))
    IN  IF wellformed
        THEN [ok |-> TRUE, v |-> IF signed /\ t[1] = "-" THEN 0 - mag ELSE mag]
        ELSE [ok |-> FALSE, v |-> 0]

(***************************************************************************)
(* TimeSpec resolver                                                       *)
(***************************************************************************)
T0 == [sec |-> 0, us |-> 0]
\* the exception a failed resolution raises (ValueError)
Raised == [ok |-> FALSE, t |-> T0]
Resolved(t) == [ok |-> TRUE, t |-> t]
\* the resolver harness before it has run
Unresolved == [by |-> "none", ok |-> FALSE, t |-> T0]

IsoWhole  == "2025-09-27T16:00:01"
IsoFrac   == "2025-09-27T16:00:01.500000"
IsoOffset == "2025-09-27T18:00:01+02:00"
IsoDate   == "2025-09-27"
IsoLiterals == {IsoWhole, IsoFrac, IsoOffset, IsoDate}

\* datetime.fromisoformat: the wall-clock fields of the literal (tzinfo aside)
fromisoformat(s) ==
    IF Len(s) = 1 /\ s[1] \in IsoLiterals
    THEN CASE s[1] = IsoWhole  -> Resolved([sec |-> Epoch0 + 1, us |-> 0])
           [] s[1] = IsoFrac   -> Resolved([sec |-> Epoch0 + 1, us |-> HalfSecond])
           [] s[1] = IsoOffset -> Resolved([sec |-> Epoch0 + 7201, us |-> 0])
           [] s[1] = IsoDate   -> Resolved([sec |-> Epoch0 - 16 * 3600, us |-> 0])
    ELSE Raised

UnitSeconds_months(u) ==
    CASE u = "h" -> 3600 [] u = "d" -> SecPerDay [] u = "m" -> 30 * SecPerDay

\* timedelta(hours=num) / timedelta(days=num) / timedelta(minutes=num)
UnitSeconds(u) ==
    CASE u = "h" -> 3600 [] u = "d" -> SecPerDay [] u = "m" -> 60

\* .replace(tzinfo=utc) keeps the wall-clock fields, so the result is what
\* fromisoformat read
parse_relative_time(s, clock) ==
    IF startswith(s, "-") /\ s[Len(s)] \in {"h", "d", "m"}
    THEN LET num == py_int(SubSeq(s, 2, Len(s) - 1))
         IN  IF num.ok
             THEN Resolved(minus(clock, num.v * UnitSeconds(s[Len(s)])))
             ELSE Raised
    ELSE fromisoformat(s)

(***************************************************************************)
(* Shared vocabulary of the two backends                                   *)
(***************************************************************************)
\* what each provider of KNOWN_METRICS reads (tenths of a percent)
KNOWN_METRICS ==
    [m \in {"cpu-usage", "memory-usage", "disk-0-usage"} |->
        CASE m = "cpu-usage" -> 125 [] m = "memory-usage" -> 400 [] OTHER -> 700]

\* the --metrics lists a measure is run with
MetricBatches ==
    { <<"cpu-usage">>, <<"cpu-usage", "memory-usage">>,
      <<"bogus", "cpu-usage">>, <<"memory-usage", "bogus">>, <<"bogus">> }

\* the --start / --end expressions a show is run with
ShowStarts == { <<>>, <<IsoWhole>>, <<IsoFrac>>, <<"-", "0", "m">> }
ShowEnds == { <<>>, <<"-", "0", "m">> }
ShowMetrics == { <<>>, <<"cpu-usage">> }
ShowLimits == { <<>>, <<0>>, <<1>> }
RetentionDays == { 0, 1 }

\* the record of a finished command: what it printed or wrote, and of its
\* arguments the metric names of a measure, the days of a prune and the
\* aggregates asked of a show; a command fills the fields it has
Blank ==
    [cmd |-> "none", args |-> <<>>, error |-> FALSE, unknown |-> <<>>,
     inserted |-> 0, rows |-> <<>>, agg |-> <<>>, total |-> <<>>,
     cutoff |-> <<>>, deleted |-> 0]

Range(f) == { f[i] : i \in DOMAIN f }

\* the processes that may run measure at the same time
Procs == {"p1", "p2"}

Sum(f) ==
    LET RECURSIVE Acc(_)
        Acc(i) == IF i = 0 THEN 0 ELSE Acc(i - 1) + f[i]
    IN  Acc(Len(f))

(***************************************************************************)
(* monitor_sqlite.py                                                       *)
(***************************************************************************)
gethostname == "host1"
gethostbyname == "10.0.0.1"

\* INSERT INTO sample: AUTOINCREMENT hands out the next id never used before
insert_sample(db, ts, host, ip, metric, value) ==
    [rows |-> db.rows \cup
                { [id |-> db.seq + 1, ts |-> ts, host |-> host, ip |-> ip,
                   metric |-> metric, value |-> value] },
     seq  |-> db.seq + 1]

\* the loop of cmd_measure over args.metrics, from position i on
RECURSIVE MeasureLoop(_, _, _, _)
MeasureLoop(acc, metrics, i, ts) ==
    IF i > Len(metrics) THEN acc
    ELSE IF metrics[i] \notin DOMAIN KNOWN_METRICS
         THEN MeasureLoop([acc EXCEPT !.unknown = Append(@, metrics[i])],
                          metrics, i + 1, ts)
         ELSE MeasureLoop(
                [acc EXCEPT !.db = insert_sample(acc.db, ts, gethostname,
                                                 gethostbyname, metrics[i],
                                                 KNOWN_METRICS[metrics[i]])],
                metrics, i + 1, ts)

NumKnown(metrics) ==
    Cardinality({ i \in 1..Len(metrics) : metrics[i] \in DOMAIN KNOWN_METRICS })

cmd_measure(metrics) ==
    /\ backend = "sqlite"
    /\ seq + NumKnown(metrics) <= MaxInserts
    /\ LET out == MeasureLoop([db |-> [rows |-> table, seq |-> seq],
                               unknown |-> <<>>],
                              metrics, 1, isoformat_utc(utcnow))
       IN  /\ table' = out.db.rows
           /\ seq' = out.db.seq
           /\ last' = [Blank EXCEPT !.cmd = "measure",
                                    !.args = [metrics |-> metrics],
                                    !.unknown = out.unknown,
                                    !.inserted = out.db.seq - seq]
    /\ UNCHANGED <<backend, now, file, pc, job, orphan, expr, resolved>>

\* the WHERE clause cmd_show assembles: each condition is added when its
\* argument is truthy
Where(r, metric, start, end) ==
    /\ Truthy(metric) => r.metric = metric[1]
    /\ start # <<>> => TextLeq(start[1], r.ts)
    /\ end # <<>> => TextLeq(r.ts, end[1])

\* ORDER BY ts DESC: any order of the rows with non-increasing ts (the order
\* among equal timestamps is not fixed by the statement)
DescOrders(S) ==
    { f \in [1..Cardinality(S) -> S] :
        /\ \A i, j \in DOMAIN f : i # j => f[i] # f[j]
        /\ \A i \in 1..(Cardinality(S) - 1) : TextLeq(f[i + 1].ts, f[i].ts) }

\* LIMIT ? is added when args.limit is truthy; a negative LIMIT is no limit
Limited(rows, limit) ==
    IF TruthyInt(limit) /\ limit[1] >= 0 /\ limit[1] < Len(rows)
    THEN SubSeq(rows, 1, limit[1])
    ELSE rows

Columns(r) == <<r.ts, r.host, r.ip, r.metric, r.value>>

Project(rows) == [i \in DOMAIN rows |-> Columns(rows[i])]

Average_unguarded(rows, wanted) ==
    IF wanted
    THEN << Sum([i \in DOMAIN rows |-> rows[i].value]), Len(rows) >>
    ELSE <<>>

\* the average line: printed when --average is set and rows is not empty;
\* <<sum, n>> stands for the quotient sum / n
Average(rows, wanted) ==
    IF wanted /\ rows # <<>>
    THEN << Sum([i \in DOMAIN rows |-> rows[i].value]), Len(rows) >>
    ELSE <<>>

\* the rows the assembled WHERE clause selects: the bounds are bound as the
\* texts isoformat_utc makes of the resolved instants
Hits(a) ==
    LET lo == IF Truthy(a.start)
              THEN <<isoformat_utc(parse_relative_time(a.start, utcnow).t)>>
              ELSE <<>>
        hi == IF Truthy(a.end)
              THEN <<isoformat_utc(parse_relative_time(a.end, utcnow).t)>>
              ELSE <<>>
    IN  { r \in table : Where(r, a.metric, lo, hi) }

\* what `last` keeps of the arguments of a show: the aggregates asked for
Asked(a) == [average |-> a.average]

cmd_show(a) ==
    /\ backend = "sqlite"
    /\ LET s == IF Truthy(a.start) THEN parse_relative_time(a.start, utcnow)
                ELSE Raised
           e == IF Truthy(a.end) THEN parse_relative_time(a.end, utcnow)
                ELSE Raised
       IN  IF (Truthy(a.start) /\ ~s.ok) \/ (Truthy(a.end) /\ ~e.ok)
           THEN last' = [Blank EXCEPT !.cmd = "show", !.args = Asked(a),
                                      !.error = TRUE]
           ELSE \E sorted \in DescOrders(Hits(a)) :
                    LET rows == Limited(sorted, a.limit)
                    IN  last' = [Blank EXCEPT
                                    !.cmd = "show", !.args = Asked(a),
                                    !.rows = Project(rows),
                                    !.agg = Average(rows, a.average)]
    /\ UNCHANGED <<backend, now, table, seq, file, pc, job, orphan, expr, resolved>>

RECURSIVE TableScan_newest_first(_)
TableScan_newest_first(S) ==
    IF S = {} THEN <<>>
    ELSE LET r == CHOOSE x \in S : \A y \in S : x.id >= y.id
         IN  <<r>> \o TableScan_newest_first(S \ {r})

\* SELECT ... FROM sample without ORDER BY: a scan of the table b-tree, which
\* is kept in rowid order (no index holds all five columns)
RECURSIVE TableScan(_)
TableScan(S) ==
    IF S = {} THEN <<>>
    ELSE LET r == CHOOSE x \in S : \A y \in S : x.id <= y.id
         IN  <<r>> \o TableScan(S \ {r})

CsvHeader5 == <<"timestamp", "host", "ip", "metric", "value">>

cmd_export ==
    /\ backend = "sqlite"
    /\ last' = [Blank EXCEPT !.cmd = "export",
                             !.rows = <<CsvHeader5>> \o Project(TableScan(table)),
                             !.inserted = Cardinality(table)]
    /\ UNCHANGED <<backend, now, table, seq, file, pc, job, orphan, expr, resolved>>

PruneDeletes_inclusive(ts, cutoff) == TextLeq(ts, cutoff)

\* DELETE FROM sample WHERE ts < ?
PruneDeletes(ts, cutoff) == TextLess(ts, cutoff)

\* VACUUM rebuilds the file and leaves the rows and sqlite_sequence alone
cmd_prune(retention_days, vacuum) ==
    /\ backend = "sqlite"
    /\ LET cutoff == isoformat_utc(minus(utcnow, retention_days * SecPerDay))
           gone   == { r \in table : PruneDeletes(r.ts, cutoff) }
       IN  /\ table' = table \ gone
           /\ last' = [Blank EXCEPT !.cmd = "prune",
                                    !.args = [retention_days |-> retention_days,
                                              vacuum |-> vacuum],
                                    !.cutoff = cutoff,
                                    !.deleted = Cardinality(gone)]
    /\ UNCHANGED <<backend, now, seq, file, pc, job, orphan, expr, resolved>>

\* half a second passes
Tick ==
    /\ 2 * (now.sec - Epoch0) + (IF now.us = 0 THEN 0 ELSE 1) < MaxTicks
    /\ now' = IF now.us = 0 THEN [now EXCEPT !.us = HalfSecond]
              ELSE [sec |-> now.sec + 1, us |-> 0]
    /\ UNCHANGED <<backend, table, seq, file, pc, job, orphan, last, expr, resolved>>

(***************************************************************************)
(* monitor_cli.py                                                          *)
(*                                                                         *)
(* A naive datetime is [f, us]: its six calendar fields and microseconds;  *)
(* Python orders naive datetimes field by field.  A line of the store file *)
(* is [kind, ts, metric, value], kind being "header", "row" or "garbage"   *)
(* (bytes that are no record); value is in thousandths, as "%.3f" prints.  *)
(***************************************************************************)
NoFields == <<0, 0, 0, 0, 0, 0>>
HeaderLine == [kind |-> "header", ts |-> NoFields, metric |-> "metric", value |-> 0]
GarbageLine == [kind |-> "garbage", ts |-> NoFields, metric |-> "", value |-> 0]
NoFile == [exists |-> FALSE, lines |-> <<>>]
\* the locals of a measure process: its arguments and the samples it took
IdleJob == [metrics |-> <<>>, reset |-> FALSE, samples |-> <<>>]

\* dt.datetime.now()
localnow == [f |-> isoformat_utc(now), us |-> now.us]

DtLess(a, b) == TextLess(a.f, b.f) \/ (a.f = b.f /\ a.us < b.us)

\* Sample.as_row: strftime drops the microseconds, the value gets 3 decimals
as_row(smp) ==
    [kind |-> "row", ts |-> smp.timestamp.f, metric |-> smp.metric,
     value |-> smp.value * 100]

as_rows(samples) == [i \in DOMAIN samples |-> as_row(samples[i])]

\* the rows read_samples parses: DictReader takes the first line as the field
\* names, and a line that does not parse is skipped
read_samples(f) ==
    IF ~f.exists \/ f.lines = <<>> THEN <<>>
    ELSE IF f.lines[1] # HeaderLine THEN <<>>
    ELSE LET body == SelectSeq(Tail(f.lines), LAMBDA l : l.kind = "row")
         IN  [i \in DOMAIN body |->
                [timestamp |-> [f |-> body[i].ts, us |-> 0],
                 metric |-> body[i].metric, value |-> body[i].value \div 100]]

\* parse_time: None for a missing argument, else the first of the three
\* strptime formats that fits; [ok |-> FALSE] stands for ArgumentTypeError
parse_time(s) ==
    IF ~Truthy(s) THEN [ok |-> TRUE, some |-> FALSE, t |-> [f |-> NoFields, us |-> 0]]
    ELSE IF Len(s) = 1 /\ s[1] \in {IsoWhole, IsoDate}
         THEN [ok |-> TRUE, some |-> TRUE,
               t |-> [f |-> isoformat_utc(fromisoformat(s).t), us |-> 0]]
         ELSE [ok |-> FALSE, some |-> FALSE, t |-> [f |-> NoFields, us |-> 0]]

filter_samples(items, metric, start, end) ==
    SelectSeq(items, LAMBDA smp :
        /\ ~(Truthy(metric) /\ smp.metric # metric[1])
        /\ ~(start.some /\ DtLess(smp.timestamp, start.t))
        /\ ~(end.some /\ DtLess(end.t, smp.timestamp)))

\* a process holding an open descriptor of the store file
HoldsFile(q) == pc[q] \in {"hdr", "write"}

Running(q) == pc[q] \notin {"idle", "done"}

\* the rows that running measures have still to write
Pending ==
    (IF Running("p1") THEN Len(job["p1"].samples) ELSE 0)
  + (IF Running("p2") THEN Len(job["p2"].samples) ELSE 0)

\* cmd_measure up to the call of append_samples: --reset, the check of the
\* names, the clock and the readings
csv_measure(p, metrics, reset) ==
    /\ backend = "csv"
    /\ pc[p] = "idle"
    /\ Len(file.lines) + Pending + Len(metrics) + 1 <= MaxLines
    /\ LET unlinked == reset /\ file.exists
           unknown  == SelectSeq(metrics, LAMBDA m : m \notin DOMAIN KNOWN_METRICS)
           t        == localnow
       IN  /\ file' = IF unlinked THEN NoFile ELSE file
           /\ orphan' = [q \in Procs |-> orphan[q] \/ (unlinked /\ HoldsFile(q))]
           /\ IF unknown # <<>>
              THEN \* raise SystemExit
                   /\ last' = [Blank EXCEPT !.cmd = "measure",
                                  !.args = [metrics |-> metrics, reset |-> reset],
                                  !.error = TRUE, !.unknown = unknown]
                   /\ pc' = [pc EXCEPT ![p] = "done"]
                   /\ job' = [job EXCEPT ![p] =
                        [metrics |-> metrics, reset |-> reset, samples |-> <<>>]]
              ELSE /\ pc' = [pc EXCEPT ![p] = "check"]
                   /\ job' = [job EXCEPT ![p] =
                        [metrics |-> metrics, reset |-> reset,
                         samples |-> [i \in DOMAIN metrics |->
                            [timestamp |-> t, metric |-> metrics[i],
                             value |-> KNOWN_METRICS[metrics[i]]]]]]
                   /\ last' = last
    /\ UNCHANGED <<backend, now, table, seq, expr, resolved>>

ensure_header_test_always(p) ==
    /\ backend = "csv"
    /\ pc[p] = "check"
    /\ pc' = [pc EXCEPT ![p] = "openw"]
    /\ UNCHANGED <<backend, now, table, seq, file, job, orphan, last, expr, resolved>>

\* ensure_header, the test: not file.exists() or st_size == 0
ensure_header_test(p) ==
    /\ backend = "csv"
    /\ pc[p] = "check"
    /\ pc' = [pc EXCEPT ![p] =
                IF ~file.exists \/ file.lines = <<>> THEN "openw" ELSE "opena"]
    /\ UNCHANGED <<backend, now, table, seq, file, job, orphan, last, expr, resolved>>

\* ensure_header, file.open("w"): the file is created or cut to length 0
ensure_header_open(p) ==
    /\ backend = "csv"
    /\ pc[p] = "openw"
    /\ file' = [exists |-> TRUE, lines |-> <<>>]
    /\ pc' = [pc EXCEPT ![p] = "hdr"]
    /\ orphan' = [orphan EXCEPT ![p] = FALSE]
    /\ UNCHANGED <<backend, now, table, seq, job, last, expr, resolved>>

\* the bytes of the header written at offset 0 over what the file holds
WriteAtStart(lines) ==
    IF lines = <<>> THEN <<HeaderLine>>
    ELSE IF lines[1] = HeaderLine THEN lines
    ELSE <<HeaderLine, GarbageLine>> \o Tail(lines)

\* ensure_header, closing the "w" handle flushes the header row
ensure_header_write(p) ==
    /\ backend = "csv"
    /\ pc[p] = "hdr"
    /\ file' = IF orphan[p] THEN file
               ELSE [file EXCEPT !.lines = WriteAtStart(@)]
    /\ pc' = [pc EXCEPT ![p] = "opena"]
    /\ orphan' = [orphan EXCEPT ![p] = FALSE]
    /\ UNCHANGED <<backend, now, table, seq, job, last, expr, resolved>>

\* append_samples, file.open("a"): a missing file is created empty
append_open(p) ==
    /\ backend = "csv"
    /\ pc[p] = "opena"
    /\ file' = [file EXCEPT !.exists = TRUE]
    /\ pc' = [pc EXCEPT ![p] = "write"]
    /\ orphan' = [orphan EXCEPT ![p] = FALSE]
    /\ UNCHANGED <<backend, now, table, seq, job, last, expr, resolved>>

\* append_samples, closing the "a" handle flushes the rows to the end of file
append_write(p) ==
    /\ backend = "csv"
    /\ pc[p] = "write"
    /\ file' = IF orphan[p] THEN file
               ELSE [file EXCEPT !.lines = @ \o as_rows(job[p].samples)]
    /\ pc' = [pc EXCEPT ![p] = "done"]
    /\ orphan' = [orphan EXCEPT ![p] = FALSE]
    /\ last' = [Blank EXCEPT !.cmd = "measure",
                             !.args = [metrics |-> job[p].metrics,
                                       reset |-> job[p].reset],
                             !.inserted = Len(job[p].samples),
                             !.rows = as_rows(job[p].samples)]
    /\ UNCHANGED <<backend, now, table, seq, job, expr, resolved>>

\* the measure process has ended; the next invocation is a fresh process
csv_exit(p) ==
    /\ backend = "csv"
    /\ pc[p] = "done"
    /\ pc' = [pc EXCEPT ![p] = "idle"]
    /\ job' = [job EXCEPT ![p] = IdleJob]
    /\ UNCHANGED <<backend, now, table, seq, file, orphan, last, expr, resolved>>

Values(data) == [i \in DOMAIN data |-> data[i].value]

\* the Average(...) line: <<sum, n>> stands for sum / n
CsvAverage(data, wanted) ==
    IF wanted /\ data # <<>> THEN <<Sum(Values(data)), Len(data)>> ELSE <<>>

\* the Total(...) line
CsvTotal(data, wanted) ==
    IF wanted /\ data # <<>> THEN <<Sum(Values(data))>> ELSE <<>>

CsvAsked(a) == [average |-> a.average, total |-> a.total]

csv_show(a) ==
    /\ backend = "csv"
    /\ LET items == read_samples(file)
           s == parse_time(a.start)
           e == parse_time(a.end)
       IN  IF ~s.ok \/ ~e.ok
           THEN last' = [Blank EXCEPT !.cmd = "show", !.args = CsvAsked(a),
                                      !.error = TRUE]
           ELSE LET data == filter_samples(items, a.metric, s, e)
                IN  last' = [Blank EXCEPT
                        !.cmd = "show", !.args = CsvAsked(a),
                        !.rows = as_rows(data),
                        !.agg = CsvAverage(data, a.average),
                        !.total = CsvTotal(data, a.total)]
    /\ UNCHANGED <<backend, now, table, seq, file, pc, job, orphan, expr, resolved>>

CsvShowArgs ==
    [metric : ShowMetrics, start : { <<>>, <<IsoWhole>>, <<IsoFrac>> },
     end : { <<>>, <<IsoDate>> }, average : BOOLEAN, total : BOOLEAN]

ShowArgs ==
    [metric : ShowMetrics, start : ShowStarts, end : ShowEnds,
     limit : ShowLimits, average : BOOLEAN]

Init ==
    /\ backend \in {"sqlite", "csv"}
    /\ now = [sec |-> Epoch0, us |-> 0]
    /\ table = {}
    /\ seq = 0
    /\ file = NoFile
    /\ pc = [p \in Procs |-> "idle"]
    /\ job = [p \in Procs |-> IdleJob]
    /\ orphan = [p \in Procs |-> FALSE]
    /\ last = Blank
    /\ expr = <<>>
    /\ resolved = Unresolved

Next ==
    \/ Tick
    \/ \E metrics \in MetricBatches : cmd_measure(metrics)
    \/ \E a \in ShowArgs : cmd_show(a)
    \/ cmd_export
    \/ \E d \in RetentionDays, v \in BOOLEAN : cmd_prune(d, v)
    \/ \E metrics \in MetricBatches, reset \in BOOLEAN :
            csv_measure("p1", metrics, reset)
    \/ ensure_header_test("p1")
    \/ ensure_header_open("p1")
    \/ ensure_header_write("p1")
    \/ append_open("p1")
    \/ append_write("p1")
    \/ csv_exit("p1")
    \/ \E a \in CsvShowArgs : csv_show(a)

\* one program at a time runs against the store
Spec == Init /\ [][Next]_vars

InitWriters ==
    /\ backend = "csv"
    /\ now = [sec |-> Epoch0, us |-> 0]
    /\ table = {}
    /\ seq = 0
    /\ file \in {NoFile, [exists |-> TRUE, lines |-> <<>>]}
    /\ pc = [p \in Procs |-> "idle"]
    /\ job = [p \in Procs |-> IdleJob]
    /\ orphan = [p \in Procs |-> FALSE]
    /\ last = Blank
    /\ expr = <<>>
    /\ resolved = Unresolved

NextWriters ==
    \/ Tick
    \/ \E p \in Procs, metrics \in MetricBatches, reset \in BOOLEAN :
            csv_measure(p, metrics, reset)
    \/ \E p \in Procs : ensure_header_test(p)
    \/ \E p \in Procs : ensure_header_open(p)
    \/ \E p \in Procs : ensure_header_write(p)
    \/ \E p \in Procs : append_open(p)
    \/ \E p \in Procs : append_write(p)

\* two measure processes of monitor_cli.py run against one store file
SpecWriters == InitWriters /\ [][NextWriters]_vars

(***************************************************************************)
(* The resolver on its own: every expression over a small alphabet         *)
(***************************************************************************)
ExprAlphabet == {"-", "+", " ", "_", "0", "1", "2", "h", "d", "m", IsoWhole}

Exprs == UNION { [1..n -> ExprAlphabet] : n \in 0..MaxExprLen }

InitTime ==
    /\ backend = "sqlite"
    /\ now \in { [sec |-> Epoch0, us |-> 0], [sec |-> Epoch0, us |-> HalfSecond] }
    /\ table = {}
    /\ seq = 0
    /\ file = NoFile
    /\ pc = [p \in Procs |-> "idle"]
    /\ job = [p \in Procs |-> IdleJob]
    /\ orphan = [p \in Procs |-> FALSE]
    /\ last = Blank
    /\ expr \in Exprs
    /\ resolved = Unresolved

\* monitor_sqlite.py resolves expr
ResolveSqlite ==
    /\ resolved.by = "none"
    /\ LET r == parse_relative_time(expr, utcnow)
       IN  resolved' = [by |-> "sqlite", ok |-> r.ok, t |-> r.t]
    /\ UNCHANGED <<backend, now, table, seq, file, pc, job, orphan, last, expr>>

\* monitor_cli.py resolves expr (a missing argument is not an expression)
ResolveCsv ==
    /\ resolved.by = "none"
    /\ Truthy(expr)
    /\ LET r == parse_time(expr)
       IN  resolved' = [by |-> "csv", ok |-> r.ok, t |-> T0]
    /\ UNCHANGED <<backend, now, table, seq, file, pc, job, orphan, last, expr>>

NextTime == ResolveSqlite \/ ResolveCsv

SpecTime == InitTime /\ [][NextTime]_vars

(***************************************************************************)
(* Vocabulary of the properties                                            *)
(***************************************************************************)
\* day number of a proleptic Gregorian date
DaysFromCivil(y0, m, d) ==
    LET y   == IF m <= 2 THEN y0 - 1 ELSE y0
        era == y \div 400
        yoe == y - era * 400
        doy == (153 * (IF m > 2 THEN m - 3 ELSE m + 9) + 2) \div 5 + d - 1
        doe == yoe * 365 + yoe \div 4 - yoe \div 100 + doy
    IN  era * 146097 + doe - 719468

\* the instant a stored timestamp text names
StampInstant(ts) ==
    [sec |-> DaysFromCivil(ts[1], ts[2], ts[3]) * SecPerDay
             + ts[4] * 3600 + ts[5] * 60 + ts[6],
     us  |-> 0]

InstantLeq(a, b) == a.sec < b.sec \/ (a.sec = b.sec /\ a.us <= b.us)

Count(x, sq) == Cardinality({ i \in DOMAIN sq : sq[i] = x })

\* the sequence out lists the rows of the set S, each once
ListsExactly(out, S) ==
    /\ Len(out) = Cardinality(S)
    /\ \A r \in S :
         Count(Columns(r), out) = Cardinality({ q \in S : Columns(q) = Columns(r) })

IsPrefix(a, b) == Len(a) <= Len(b) /\ SubSeq(b, 1, Len(a)) = a

\* the sample rows the csv file holds
CsvRows(f) == SelectSeq(f.lines, LAMBDA l : l.kind = "row")

Min(a, b) == IF a <= b THEN a ELSE b

(***************************************************************************)
(* C1                                                                      *)
(***************************************************************************)
\* C1: a show with --start and/or --end and no row limit returns exactly the
\* stored rows S (of the metric asked for) with start <= S.timestamp <= end,
\* start and end being the instants the expressions resolve to; so an
\* inverted window returns nothing.
C1_WindowExact ==
    [][\A a \in ShowArgs :
         (a.limit = <<>> /\ cmd_show(a) /\ ~last'.error) =>
            LET s == parse_relative_time(a.start, utcnow).t
                e == parse_relative_time(a.end, utcnow).t
                InWindow(r) ==
                    /\ Truthy(a.metric) => r.metric = a.metric[1]
                    /\ Truthy(a.start) => InstantLeq(s, StampInstant(r.ts))
                    /\ Truthy(a.end) => InstantLeq(StampInstant(r.ts), e)
            IN  ListsExactly(last'.rows, { r \in table : InWindow(r) })]_vars

(***************************************************************************)
(* C2                                                                      *)
(***************************************************************************)
\* C2: after a prune with cutoff C the table holds exactly the rows it held
\* before whose timestamp is at or after C (a row stamped C stays, every
\* earlier row is gone), the count reported is the number of rows removed,
\* and a second DELETE with the same cutoff would remove no row.
C2_PruneBoundary ==
    [][\A d \in RetentionDays, v \in BOOLEAN :
         cmd_prune(d, v) =>
            LET C == StampInstant(last'.cutoff)
            IN  /\ table' = { r \in table : InstantLeq(C, StampInstant(r.ts)) }
                /\ last'.deleted = Cardinality(table) - Cardinality(table')
                /\ { r \in table' : PruneDeletes(r.ts, last'.cutoff) } = {}]_vars

\* a prune has removed a row and kept a row stamped exactly at the cutoff
C2_Witness ==
    /\ last.cmd = "prune"
    /\ last.deleted >= 1
    /\ \E r \in table : r.ts = last.cutoff

(***************************************************************************)
(* C3                                                                      *)
(***************************************************************************)
\* the store keeps every row it has, in place
RowsKept ==
    /\ table \subseteq table'
    /\ IsPrefix(CsvRows(file), CsvRows(file'))

\* the row count grows by the samples written, and only when they are written
RowsGrow ==
    /\ \A m \in MetricBatches :
         cmd_measure(m) => Cardinality(table') = Cardinality(table) + NumKnown(m)
    /\ append_write("p1") =>
         Len(CsvRows(file')) = Len(CsvRows(file)) + Len(job["p1"].samples)
    /\ (backend = "csv" /\ ~append_write("p1")) =>
         Len(CsvRows(file')) = Len(CsvRows(file))

\* a step of a measure command of monitor_cli.py after its first
CsvMeasureBody ==
    \/ ensure_header_test("p1")
    \/ ensure_header_open("p1")
    \/ ensure_header_write("p1")
    \/ append_open("p1")
    \/ append_write("p1")

\* C3 as stated: in every sequence of measure commands, run one after the
\* other, no step of a measure changes or removes a row the store holds, and
\* the row count grows by exactly the number of samples inserted.
C3_AppendOnly ==
    [][((\E m \in MetricBatches : cmd_measure(m))
         \/ (\E m \in MetricBatches, r \in BOOLEAN : csv_measure("p1", m, r))
         \/ CsvMeasureBody)
       => (RowsKept /\ RowsGrow)]_vars

\* C3 amended: the same, for measure commands run without --reset
\* (monitor_cli.py measure --reset deletes the store file before it appends).
C3_AppendOnlyWithoutReset ==
    [][((\E m \in MetricBatches : cmd_measure(m))
         \/ (\E m \in MetricBatches : csv_measure("p1", m, FALSE))
         \/ CsvMeasureBody)
       => (RowsKept /\ RowsGrow)]_vars

\* a measure without --reset has appended to a file that already held rows
C3_Witness ==
    /\ backend = "csv"
    /\ pc["p1"] = "done"
    /\ ~job["p1"].reset
    /\ last.cmd = "measure"
    /\ last.inserted >= 1
    /\ Len(CsvRows(file)) > last.inserted

(***************************************************************************)
(* C4                                                                      *)
(***************************************************************************)
\* C4: when two measure processes, neither with --reset, have run at the same
\* time against one store file (absent or empty when they started) and both
\* have finished, the file holds the samples of both batches, each once.
C4_BothBatchesStored ==
    (\A p \in Procs : pc[p] = "done" /\ ~job[p].reset /\ job[p].samples # <<>>)
    => LET want == as_rows(job["p1"].samples) \o as_rows(job["p2"].samples)
           have == CsvRows(file)
       IN  /\ Len(have) = Len(want)
           /\ \A l \in Range(want) : Count(l, have) = Count(l, want)

(***************************************************************************)
(* C5                                                                      *)
(***************************************************************************)
\* C5: a show returns the rows its filter selects by non-increasing
\* timestamp; with a row limit n given it returns the n newest of them (all
\* of them when there are fewer than n), without one it returns them all.
C5_LimitNewest ==
    [][\A a \in ShowArgs :
         (cmd_show(a) /\ ~last'.error) =>
            LET n == IF a.limit = <<>> THEN Cardinality(Hits(a))
                     ELSE Min(a.limit[1], Cardinality(Hits(a)))
            IN  \E f \in DescOrders(Hits(a)) :
                    last'.rows = Project(SubSeq(f, 1, n))]_vars

(***************************************************************************)
(* C6                                                                      *)
(***************************************************************************)
\* the rows of the table by ascending id
ByAscendingId(S) ==
    CHOOSE f \in [1..Cardinality(S) -> S] :
        \A i, j \in DOMAIN f : i < j => f[i].id < f[j].id

C7_UnknownDoesNotAbort ==
    last.cmd = "measure" =>
        /\ last.inserted = NumKnown(last.args.metrics)
        /\ last.unknown =
             SelectSeq(last.args.metrics, LAMBDA m : m \notin DOMAIN KNOWN_METRICS)

(***************************************************************************)
(* C8 and C9                                                               *)
(***************************************************************************)
\* '-', one or more digits, one of h d m
IsRelativeOffset(e) ==
    /\ Len(e) >= 3
    /\ e[1] = "-"
    /\ e[Len(e)] \in {"h", "d", "m"}
    /\ \A i \in 2..(Len(e) - 1) : IsDigit(e[i])

IsAbsolute(e) == Len(e) = 1 /\ e[1] \in IsoLiterals

\* C8: an expression that is neither a relative offset nor an absolute
\* ISO-8601 timestamp is never resolved to an instant: resolving it fails.
C8_RejectsOtherForms ==
    (resolved.by # "none" /\ ~IsRelativeOffset(expr) /\ ~IsAbsolute(expr))
    => ~resolved.ok

\* the number a digit string writes, most significant digit first
RECURSIVE Pow10(_)
Pow10(k) == IF k = 0 THEN 1 ELSE 10 * Pow10(k - 1)

Written(ds) ==
    Sum([i \in DOMAIN ds |-> DigitVal(ds[i]) * Pow10(Len(ds) - i)])

\* C9: '-' N u resolves to the clock minus N hours (u = h), N days (u = d) or
\* N minutes (u = m); with the clock at 2025-09-27T16:00:00Z, -1h is
\* 2025-09-27T15:00:00Z and -2d is 2025-09-25T16:00:00Z.
C9_RelativeOffset ==
    (resolved.by = "sqlite" /\ IsRelativeOffset(expr)) =>
        LET N == Written(SubSeq(expr, 2, Len(expr) - 1))
            u == expr[Len(expr)]
            span == IF u = "h" THEN N * 60 * 60
                    ELSE IF u = "d" THEN N * 24 * 60 * 60
                    ELSE N * 60
        IN  /\ resolved.ok
            /\ resolved.t = [sec |-> now.sec - span, us |-> now.us]
            /\ (now = [sec |-> Epoch0, us |-> 0]) =>
                 /\ isoformat_utc(now) = <<2025, 9, 27, 16, 0, 0>>
                 /\ expr = <<"-", "1", "h">> =>
                      isoformat_utc(resolved.t) = <<2025, 9, 27, 15, 0, 0>>
                 /\ expr = <<"-", "2", "d">> =>
                      isoformat_utc(resolved.t) = <<2025, 9, 25, 16, 0, 0>>

\* -12m has been resolved
C9_Witness ==
    /\ resolved.by = "sqlite"
    /\ expr = <<"-", "1", "2", "m">>
    /\ resolved.ok

(***************************************************************************)
(* C10                                                                     *)
(***************************************************************************)
\* C10: a show whose result set is empty prints no aggregate line (and does
\* not fail); an average or a total is printed only when it was asked for and
\* at least one row matched.
C10_NoAggregateOnEmpty ==
    (last.cmd = "show" /\ ~last.error) =>
        /\ last.rows = <<>> => (last.agg = <<>> /\ last.total = <<>>)
        /\ last.agg # <<>> => (last.args.average /\ last.rows # <<>>)
        /\ last.total # <<>> => (backend = "csv" /\ last.args.total /\ last.rows # <<>>)

\* an average was asked of a store that holds rows, and no row matched
C10_Witness ==
    /\ last.cmd = "show"
    /\ ~last.error
    /\ last.args.average
    /\ last.rows = <<>>
    /\ table # {}

====
